---- MODULE Spec2Model ----
(***************************************************************************)
(* Model of extensions/dav1d/src/main/jni/dav1d_jni.cc: the frame buffer   *)
(* pool (JniFrameBuffer, JniBufferManager) and the JNI entry points that   *)
(* use it (gav1GetFrame, gav1ReleaseFrame, gav1RenderFrame,                *)
(* gav1CheckError).                                                        *)
(*                                                                         *)
(* A JniFrameBuffer is identified by its id_, which is its index in        *)
(* all_buffers_; a pointer to a buffer is modelled by that id.  Sequences  *)
(* are 1-based, so the buffer with id i is all_buffers_[i + 1].            *)
(***************************************************************************)
EXTENDS Integers, Sequences, FiniteSets, TLC

VARIABLES
    all_buffers_,    \* JniBufferManager::all_buffers_[0 .. all_buffer_count_ - 1]
    free_buffers_,   \* JniBufferManager::free_buffers_[0 .. free_buffer_count_ - 1]
    call,            \* the pool operation performed last, with its input and result
    stale_refs,      \* number of AddBufferReference calls made on a buffer not in use
    first_held,      \* the pool's caller works on the buffers first_held ..
                     \* first_held + MaxHeldIds - 1
    decoderPrivate,  \* VideoDecoderOutputBuffer.decoderPrivate of each output buffer
    data,            \* VideoDecoderOutputBuffer.data of each output buffer
    avid_status_code,  \* JniContext::avid_status_code
    jni_status_code,   \* JniContext::jni_status_code
    jni_ret,         \* the JNI call made last, with its inputs and its return value
    mutex_,          \* JniBufferManager::mutex_: the thread that holds it, or "free"
    pc               \* where the decoder thread and the render thread are

poolVars == <<all_buffers_, free_buffers_>>
callerVars == <<call, stale_refs, first_held>>
outputVars == <<decoderPrivate, data>>
contextVars == <<all_buffers_, free_buffers_, avid_status_code, jni_status_code>>
jniVars == <<decoderPrivate, data, avid_status_code, jni_status_code, jni_ret>>
threadVars == <<mutex_, pc>>
vars == <<all_buffers_, free_buffers_, call, stale_refs, first_held,
          decoderPrivate, data, avid_status_code, jni_status_code, jni_ret,
          mutex_, pc>>

----------------------------------------------------------------------------
(* Program constants *)

kPlaneY == 0
kPlaneU == 1
kPlaneV == 2
kMaxPlanes == 3
kMaxFrames == 32

kJniStatusOk == 0
kJniStatusOutOfMemory == -1
kJniStatusBufferAlreadyReleased == -2
kJniStatusBitDepth12NotSupportedWithYuv == -4
kJniStatusHighBitDepthNotSupportedWithSurfaceYuv == -5
kJniStatusBufferResizeError == -7

kOutputModeYuv == 0
kOutputModeSurfaceYuv == 1

kStatusError == 0
kStatusOk == 1
kStatusDecodeOnly == 2

(* Bounds of the model *)

\* The pool's caller works on MaxHeldIds buffers: the first ones of the pool
\* (and then it asks for no further buffer), or the last ones (ids kMaxFrames -
\* MaxHeldIds .. kMaxFrames - 1, the buffers before them staying in use).  Only
\* these are passed to AddBufferReference and ReleaseBuffer, and only their
\* allocations may fail.
MaxHeldIds == 2
\* AddBufferReference is not called on a buffer that has MaxRefs references.
MaxRefs == 2
\* At most MaxStale calls of AddBufferReference on a buffer not in use.
MaxStale == 1
\* The pool's callers request planes of 2 * PoolPlaneSize bytes for Y and of
\* PoolPlaneSize bytes for U and V.
PoolPlaneSize == 1

Held(id) == id >= first_held /\ id < first_held + MaxHeldIds
Planes == kPlaneY .. (kMaxPlanes - 1)

----------------------------------------------------------------------------
(* JniFrameBuffer *)

\* JniFrameBuffer(int id): reference_count_(0), raw_buffer_ = {}, raw_buffer_size_ = {}.
\* raw_buffer_[p + 1] is TRUE when the plane's pointer is not null.
JniFrameBuffer ==
    [reference_count_ |-> 0,
     raw_buffer_      |-> <<FALSE, FALSE, FALSE>>,
     raw_buffer_size_ |-> <<0, 0, 0>>]

AddReference_Twice(buffer) ==
    [buffer EXCEPT !.reference_count_ = @ + 2]

AddReference(buffer) ==
    [buffer EXCEPT !.reference_count_ = @ + 1]

RemoveReference_Reset(buffer) ==
    [buffer EXCEPT !.reference_count_ = 0]

RemoveReference(buffer) ==
    [buffer EXCEPT !.reference_count_ = @ - 1]

InUse(buffer) == buffer.reference_count_ # 0

\* raw_buffer_size_[plane_index] >= min_size compares a size_t with an int:
\* the int is converted to size_t, so a negative min_size stands for a value
\* above every recorded capacity (capacities are values of an int).
SizeSuffices(raw_buffer_size, min_size) ==
    min_size >= 0 /\ raw_buffer_size >= min_size

\* The loop of MaybeReallocateGav1DataPlanes from plane_index on.  oom is the
\* set of planes whose new (std::nothrow) returns null when it is reached;
\* new (std::nothrow) uint8_t[min_size] with a negative min_size returns null.
RECURSIVE ReallocateFrom(_, _, _, _, _)
ReallocateFrom(buffer, plane_index, y_plane_min_size, uv_plane_min_size, oom) ==
    IF plane_index >= kMaxPlanes
    THEN [ok |-> TRUE, buffer |-> buffer]
    ELSE LET min_size == IF plane_index = kPlaneY
                         THEN y_plane_min_size ELSE uv_plane_min_size
         IN IF SizeSuffices(buffer.raw_buffer_size_[plane_index + 1], min_size)
            THEN ReallocateFrom(buffer, plane_index + 1,
                                y_plane_min_size, uv_plane_min_size, oom)
            ELSE IF plane_index \in oom \/ min_size < 0
                 THEN [ok |-> FALSE,
                       buffer |-> [buffer EXCEPT
                                     !.raw_buffer_[plane_index + 1] = FALSE,
                                     !.raw_buffer_size_[plane_index + 1] = 0]]
                 ELSE ReallocateFrom(
                        [buffer EXCEPT
                           !.raw_buffer_[plane_index + 1] = TRUE,
                           !.raw_buffer_size_[plane_index + 1] = min_size],
                        plane_index + 1, y_plane_min_size, uv_plane_min_size, oom)

MaybeReallocateGav1DataPlanes_AlwaysTrue(buffer, y_plane_min_size, uv_plane_min_size, oom) ==
    [ReallocateFrom(buffer, kPlaneY, y_plane_min_size, uv_plane_min_size, oom)
        EXCEPT !.ok = TRUE]

MaybeReallocateGav1DataPlanes(buffer, y_plane_min_size, uv_plane_min_size, oom) ==
    ReallocateFrom(buffer, kPlaneY, y_plane_min_size, uv_plane_min_size, oom)

----------------------------------------------------------------------------
(* JniBufferManager *)

all_buffer_count_ == Len(all_buffers_)
free_buffer_count_ == Len(free_buffers_)

AllocatedIds == 0 .. (all_buffer_count_ - 1)
Buffer(id) == all_buffers_[id + 1]

\* The id of the buffer GetBuffer works on: the top of the free list, or the
\* id the next new buffer gets; -1 when the pool is exhausted.
NextBufferId(all, free) ==
    IF Len(free) > 0 THEN free[Len(free)]
    ELSE IF Len(all) < kMaxFrames THEN Len(all)
    ELSE -1

\* Lines 270-279 of GetBuffer: reallocate the planes of output_buffer, then
\* take a reference.
GetBufferFinish_NoReference(all, free, id, y_plane_min_size, uv_plane_min_size, oom) ==
    LET r == MaybeReallocateGav1DataPlanes(all[id + 1], y_plane_min_size,
                                           uv_plane_min_size, oom)
    IN IF ~r.ok
       THEN [status |-> kJniStatusOutOfMemory, jni_buffer |-> -1,
             all |-> [all EXCEPT ![id + 1] = r.buffer], free |-> free]
       ELSE [status |-> kJniStatusOk, jni_buffer |-> id,
             all |-> [all EXCEPT ![id + 1] = r.buffer], free |-> free]

GetBufferFinish(all, free, id, y_plane_min_size, uv_plane_min_size, oom) ==
    LET r == MaybeReallocateGav1DataPlanes(all[id + 1], y_plane_min_size,
                                           uv_plane_min_size, oom)
    IN IF ~r.ok
       THEN [status |-> kJniStatusOutOfMemory, jni_buffer |-> -1,
             all |-> [all EXCEPT ![id + 1] = r.buffer], free |-> free]
       ELSE [status |-> kJniStatusOk, jni_buffer |-> id,
             all |-> [all EXCEPT ![id + 1] = AddReference(r.buffer)],
             free |-> free]

\* GetBuffer(y_plane_min_size, uv_plane_min_size, &jni_buffer) on the pool
\* <<all, free>>.  new_fails: new (std::nothrow) JniFrameBuffer returns null.
GetBuffer_NoCap(all, free, y_plane_min_size, uv_plane_min_size, new_fails, oom) ==
    IF Len(free) > 0
    THEN GetBufferFinish(all, SubSeq(free, 1, Len(free) - 1), free[Len(free)],
                         y_plane_min_size, uv_plane_min_size, oom)
    ELSE IF new_fails
         THEN [status |-> kJniStatusOutOfMemory, jni_buffer |-> -1,
               all |-> all, free |-> free]
         ELSE GetBufferFinish(Append(all, JniFrameBuffer), free, Len(all),
                              y_plane_min_size, uv_plane_min_size, oom)

GetBuffer_Fifo(all, free, y_plane_min_size, uv_plane_min_size, new_fails, oom) ==
    IF Len(free) > 0
    THEN GetBufferFinish(all, Tail(free), Head(free),
                         y_plane_min_size, uv_plane_min_size, oom)
    ELSE IF Len(all) < kMaxFrames
         THEN IF new_fails
              THEN [status |-> kJniStatusOutOfMemory, jni_buffer |-> -1,
                    all |-> all, free |-> free]
              ELSE GetBufferFinish(Append(all, JniFrameBuffer), free, Len(all),
                                   y_plane_min_size, uv_plane_min_size, oom)
         ELSE [status |-> kJniStatusOutOfMemory, jni_buffer |-> -1,
               all |-> all, free |-> free]

GetBuffer(all, free, y_plane_min_size, uv_plane_min_size, new_fails, oom) ==
    IF Len(free) > 0
    THEN GetBufferFinish(all, SubSeq(free, 1, Len(free) - 1), free[Len(free)],
                         y_plane_min_size, uv_plane_min_size, oom)
    ELSE IF Len(all) < kMaxFrames
         THEN IF new_fails
              THEN [status |-> kJniStatusOutOfMemory, jni_buffer |-> -1,
                    all |-> all, free |-> free]
              ELSE GetBufferFinish(Append(all, JniFrameBuffer), free, Len(all),
                                   y_plane_min_size, uv_plane_min_size, oom)
         ELSE [status |-> kJniStatusOutOfMemory, jni_buffer |-> -1,
               all |-> all, free |-> free]

\* AddBufferReference(id) on the pool <<all, free>>.
AddBufferReference(all, free, id) ==
    [all |-> [all EXCEPT ![id + 1] = AddReference(@)], free |-> free]

\* ReleaseBuffer(id) on the pool <<all, free>>.
ReleaseBuffer_NoCheck(all, free, id) ==
    LET released == RemoveReference(all[id + 1])
    IN [status |-> kJniStatusOk,
        all |-> [all EXCEPT ![id + 1] = released],
        free |-> IF ~InUse(released) THEN Append(free, id) ELSE free]

ReleaseBuffer(all, free, id) ==
    IF ~InUse(all[id + 1])
    THEN [status |-> kJniStatusBufferAlreadyReleased, all |-> all, free |-> free]
    ELSE LET released == RemoveReference(all[id + 1])
         IN [status |-> kJniStatusOk,
             all |-> [all EXCEPT ![id + 1] = released],
             free |-> IF ~InUse(released) THEN Append(free, id) ELSE free]

----------------------------------------------------------------------------
(* JniContext and the output buffers *)

\* The two VideoDecoderOutputBuffer objects handed to the JNI calls, one in
\* each output mode (its mode field).
OutputBuffers == {kOutputModeYuv, kOutputModeSurfaceYuv}
Mode(ob) == ob

NoCall ==
    [fn |-> "none", ob |-> kOutputModeYuv, result |-> kStatusOk,
     decode_only |-> FALSE, pic |-> <<>>, jni_buffer |-> -1, again |-> FALSE]

Threads == {"decoder", "render"}

Idle == [fn |-> "idle", arg |-> -1]

\* new JniContext() after a successful gav1Init, and output buffers that are
\* not bound to a frame buffer (decoderPrivate as gav1ReleaseFrame leaves it).
JniContext ==
    /\ avid_status_code = kJniStatusOk
    /\ jni_status_code = kJniStatusOk
    /\ decoderPrivate = [ob \in OutputBuffers |-> -1]
    /\ data = [ob \in OutputBuffers |-> <<>>]
    /\ jni_ret = NoCall
    /\ mutex_ = "free"
    /\ pc = [t \in Threads |-> Idle]

\* gav1CheckError
gav1CheckError ==
    IF avid_status_code # kJniStatusOk \/ jni_status_code # kJniStatusOk
    THEN kStatusError
    ELSE kStatusOk

----------------------------------------------------------------------------
(* The pool driven through its three operations *)

\* Allocation outcomes offered to a GetBuffer call: new_fails, whether
\* new (std::nothrow) JniFrameBuffer returns null, and oom, the planes whose
\* new (std::nothrow) uint8_t[] returns null.  Allocations fail only for one
\* of the MaxHeldIds buffers the caller works on.
AllocChoices(id) ==
    IF Held(id)
    THEN {[new_fails |-> FALSE, oom |-> {}], [new_fails |-> TRUE, oom |-> {}]}
         \cup {[new_fails |-> FALSE, oom |-> {p}] : p \in Planes}
    ELSE {[new_fails |-> FALSE, oom |-> {}]}

HeldIds == {id \in AllocatedIds : Held(id)}

PoolInit ==
    /\ all_buffers_ = <<>>
    /\ free_buffers_ = <<>>
    /\ call = [op |-> "none", id |-> -1, status |-> kJniStatusOk, jni_buffer |-> -1]
    /\ stale_refs = 0
    /\ first_held \in {0, kMaxFrames - MaxHeldIds}
    /\ JniContext

PoolGetBuffer ==
    /\ NextBufferId(all_buffers_, free_buffers_) < first_held + MaxHeldIds
    /\ \E y \in {2 * PoolPlaneSize}, uv \in {PoolPlaneSize},
          alloc \in AllocChoices(NextBufferId(all_buffers_, free_buffers_)) :
            LET r == GetBuffer(all_buffers_, free_buffers_, y, uv,
                               alloc.new_fails, alloc.oom)
            IN /\ all_buffers_' = r.all
               /\ free_buffers_' = r.free
               /\ call' = [op |-> "GetBuffer", id |-> -1, status |-> r.status,
                           jni_buffer |-> r.jni_buffer]
    /\ UNCHANGED <<stale_refs, first_held>>
    /\ UNCHANGED <<jniVars, threadVars>>

PoolAddBufferReference ==
    \E id \in HeldIds :
        /\ Buffer(id).reference_count_ < MaxRefs
        /\ InUse(Buffer(id)) \/ stale_refs < MaxStale
        /\ LET r == AddBufferReference(all_buffers_, free_buffers_, id)
           IN /\ all_buffers_' = r.all
              /\ free_buffers_' = r.free
        /\ stale_refs' = IF InUse(Buffer(id)) THEN stale_refs ELSE stale_refs + 1
        /\ UNCHANGED first_held
        /\ UNCHANGED <<jniVars, threadVars>>
        /\ call' = [op |-> "AddBufferReference", id |-> id,
                    status |-> kJniStatusOk, jni_buffer |-> -1]

PoolReleaseBuffer ==
    \E id \in HeldIds :
        LET r == ReleaseBuffer(all_buffers_, free_buffers_, id)
        IN /\ all_buffers_' = r.all
           /\ free_buffers_' = r.free
           /\ call' = [op |-> "ReleaseBuffer", id |-> id, status |-> r.status,
                       jni_buffer |-> -1]
           /\ UNCHANGED <<stale_refs, first_held>>
           /\ UNCHANGED <<jniVars, threadVars>>

PoolNext ==
    \/ PoolGetBuffer
    \/ PoolAddBufferReference
    \/ PoolReleaseBuffer

SpecPool == PoolInit /\ [][PoolNext]_vars

----------------------------------------------------------------------------
(* Decoded pictures: what dav1d_get_picture stores in a Dav1dPicture *)

\* Every picture has rows of PicStride bytes in each plane and PicStride \div 2
\* samples per row; 4:2:0 pictures of 1 .. MaxPicHeight rows.
PicStride == 8
MaxPicHeight == 2

\* DAV1D_ERR(EAGAIN): dav1d_get_picture has no picture to return.
kDav1dErrAgain == -11

PlaneRows(h, plane_index) ==
    IF plane_index = kPlaneY THEN h ELSE (h + 1) \div 2

\* The 10-bit sample number k of a plane, and the byte at offset i of a plane
\* (samples of more than 8 bits are stored as little-endian 16-bit words).
PictureSample(plane_index, k) == (1023 + 341 * k + 700 * plane_index) % 1024

PictureByte(bpc, plane_index, i) ==
    IF bpc = 8
    THEN (17 * plane_index + 5 * i + 1) % 256
    ELSE IF i % 2 = 0
         THEN PictureSample(plane_index, i \div 2) % 256
         ELSE PictureSample(plane_index, i \div 2) \div 256

Dav1dPicture(bpc, h) ==
    [p |-> [w |-> PicStride \div 2, h |-> h, bpc |-> bpc],
     stride |-> <<PicStride, PicStride>>,
     data |-> [plane \in 1 .. kMaxPlanes |->
                 [i \in 1 .. PicStride * PlaneRows(h, plane - 1) |->
                     PictureByte(bpc, plane - 1, i - 1)]]]

\* 8-bit pictures of every height; a 10-bit and a 12-bit picture of one row.
Pictures ==
    {Dav1dPicture(8, h) : h \in 1 .. MaxPicHeight}
    \cup {Dav1dPicture(10, 1), Dav1dPicture(12, 1)}

\* sizeof(void *): 4 on the 32-bit ABIs, 8 on the 64-bit ones.
PointerSizes == {4, 8}

----------------------------------------------------------------------------
(* Copies into VideoDecoderOutputBuffer.data *)

\* VideoDecoderOutputBuffer.initForYuvFrame(width, height, yStride, uvStride,
\* colorspace) when it returns true: data holds yStride * height +
\* 2 * uvStride * ((height + 1) / 2) bytes; -1 stands for a byte nothing has
\* been copied to.
InitForYuvFrame(height, yStride, uvStride) ==
    [i \in 1 .. yStride * height + 2 * uvStride * ((height + 1) \div 2) |-> -1]

\* CopyFrameToDataBuffer with length = sizeof decoder_buffer->data[plane_index]:
\* plane plane_index is copied to data[plane_index * length ..
\* (plane_index + 1) * length - 1].
CopyFrameToDataBuffer(decoder_buffer, dst, length) ==
    [i \in 1 .. Len(dst) |->
        IF i <= kMaxPlanes * length
        THEN decoder_buffer.data[((i - 1) \div length) + 1][((i - 1) % length) + 1]
        ELSE dst[i]]

\* What the reads of Convert10BitFrameTo8BitDataBuffer outside the picture
\* yield: stride_2 is the value read as decoder_buffer->stride[2] (stride has
\* two entries), garbage the uint16_t read at an offset past the end of a
\* plane.
NoUb == [stride_2 |-> PicStride, garbage |-> 0]

UbChoices == [stride_2 : {PicStride \div 2, PicStride}, garbage : {0, 65535}]

\* source_16[j] with source at byte offset row of the plane
Source16(source, row, j, garbage) ==
    IF row + 2 * j + 2 <= Len(source)
    THEN source[row + 2 * j + 1] + 256 * source[row + 2 * j + 2]
    ELSE garbage

\* One plane of Convert10BitFrameTo8BitDataBuffer from sample number k on
\* (row k \div w, column k % w); base is the offset in dst the plane's first
\* row goes to, sample the remainder carried over.  The jbyte stored is the
\* low 8 bits of sample >> 2.  A store past the end of dst does not reach the
\* output buffer.
RECURSIVE Convert10BitPlane(_, _, _, _, _, _, _, _, _)
Convert10BitPlane(source, stride, w, h, k, sample, dst, base, garbage) ==
    IF k >= w * h
    THEN dst
    ELSE LET i == k \div w
             j == k % w
             sum == sample + Source16(source, i * stride, j, garbage)
             at == base + i * stride + j + 1
         IN Convert10BitPlane(source, stride, w, h, k + 1, sum % 4,
                IF at \in 1 .. Len(dst)
                THEN [dst EXCEPT ![at] = (sum \div 4) % 256]
                ELSE dst,
                base, garbage)

\* Convert10BitFrameTo8BitDataBuffer: every plane is walked as p.h rows of
\* p.w samples and takes p.h * stride[plane_index] bytes of dst, where
\* stride[2] is ub.stride_2.
Convert10BitFrameTo8BitDataBuffer(decoder_buffer, dst, ub) ==
    LET w == decoder_buffer.p.w
        h == decoder_buffer.p.h
        y_stride == decoder_buffer.stride[1]
        uv_stride == decoder_buffer.stride[2]
        y == Convert10BitPlane(decoder_buffer.data[1], y_stride, w, h, 0, 0,
                               dst, 0, ub.garbage)
        u == Convert10BitPlane(decoder_buffer.data[2], uv_stride, w, h, 0, 0,
                               y, h * y_stride, ub.garbage)
    IN Convert10BitPlane(decoder_buffer.data[3], ub.stride_2, w, h, 0, 0,
                         u, h * y_stride + h * uv_stride, ub.garbage)

----------------------------------------------------------------------------
(* JNI entry points *)

Return(fn, ob, result, decode_only, pic, jni_buffer, again) ==
    [fn |-> fn, ob |-> ob, result |-> result, decode_only |-> decode_only,
     pic |-> pic, jni_buffer |-> jni_buffer, again |-> again]

\* gav1GetFrame(jContext, jOutputBuffer = ob, decodeOnly).  Inputs from the
\* environment: picture_status and pic, the result of dav1d_get_picture;
\* new_fails and oom, the outcome of the allocations in GetBuffer;
\* init_result, what initForYuvFrame returns; exception, whether the Java
\* method called threw; length, sizeof(void *); ub, what the reads outside the
\* picture yield.
gav1GetFrame(ob, decodeOnly, picture_status, pic, new_fails, oom, init_result, exception, length, ub) ==
    LET got == GetBuffer(all_buffers_, free_buffers_, pic.stride[1],
                         pic.stride[2], new_fails, oom)
        Returns(result, jni_buffer) ==
            jni_ret' = Return("gav1GetFrame", ob, result, decodeOnly, pic,
                              jni_buffer, FALSE)
    IN /\ avid_status_code' = picture_status
       /\ UNCHANGED callerVars
       /\ IF picture_status # kJniStatusOk
          THEN /\ Returns(kStatusError, -1)
               /\ UNCHANGED <<poolVars, jni_status_code, outputVars>>
          ELSE IF decodeOnly
          THEN /\ Returns(kStatusDecodeOnly, -1)
               /\ UNCHANGED <<poolVars, jni_status_code, outputVars>>
          ELSE
            /\ all_buffers_' = got.all
            /\ free_buffers_' = got.free
            /\ IF got.status # kJniStatusOk
               THEN /\ jni_status_code' = got.status
                    /\ Returns(kStatusError, -1)
                    /\ UNCHANGED outputVars
               ELSE IF Mode(ob) = kOutputModeYuv
               THEN
                 IF exception
                 THEN /\ jni_status_code' = got.status
                      /\ Returns(kStatusError, got.jni_buffer)
                      /\ UNCHANGED outputVars
                 ELSE IF ~init_result
                 THEN /\ jni_status_code' = kJniStatusBufferResizeError
                      /\ Returns(kStatusError, got.jni_buffer)
                      /\ UNCHANGED outputVars
                 ELSE
                   LET resized == InitForYuvFrame(pic.p.h, pic.stride[kPlaneY + 1],
                                                  pic.stride[kPlaneU + 1])
                   IN /\ UNCHANGED decoderPrivate
                      /\ IF pic.p.bpc = 8
                         THEN /\ data' = [data EXCEPT ![ob] =
                                    CopyFrameToDataBuffer(pic, resized, length)]
                              /\ jni_status_code' = got.status
                              /\ Returns(kStatusOk, got.jni_buffer)
                         ELSE IF pic.p.bpc = 10
                         THEN /\ data' = [data EXCEPT ![ob] =
                                    Convert10BitFrameTo8BitDataBuffer(pic, resized, ub)]
                              /\ jni_status_code' = got.status
                              /\ Returns(kStatusOk, got.jni_buffer)
                         ELSE /\ data' = [data EXCEPT ![ob] = resized]
                              /\ jni_status_code' =
                                     kJniStatusBitDepth12NotSupportedWithYuv
                              /\ Returns(kStatusError, got.jni_buffer)
               ELSE
                 IF pic.p.bpc # 8
                 THEN /\ jni_status_code' =
                             kJniStatusHighBitDepthNotSupportedWithSurfaceYuv
                      /\ Returns(kStatusError, got.jni_buffer)
                      /\ UNCHANGED outputVars
                 ELSE IF exception
                 THEN /\ jni_status_code' = got.status
                      /\ Returns(kStatusError, got.jni_buffer)
                      /\ UNCHANGED outputVars
                 ELSE /\ decoderPrivate' =
                             [decoderPrivate EXCEPT ![ob] = got.jni_buffer]
                      /\ jni_status_code' = got.status
                      /\ Returns(kStatusOk, got.jni_buffer)
                      /\ UNCHANGED data

\* gav1ReleaseFrame(jContext, jOutputBuffer = ob)
gav1ReleaseFrame_KeepsPrivate(ob) ==
    LET buffer_id == decoderPrivate[ob]
        released == ReleaseBuffer(all_buffers_, free_buffers_, buffer_id)
    IN /\ UNCHANGED decoderPrivate
       /\ jni_ret' = Return("gav1ReleaseFrame", ob, kStatusOk, FALSE, <<>>,
                            buffer_id,
                            jni_ret.fn = "gav1ReleaseFrame" /\ jni_ret.ob = ob)
       /\ UNCHANGED <<avid_status_code, data, callerVars>>
       /\ IF buffer_id < 0
          THEN UNCHANGED <<poolVars, jni_status_code>>
          ELSE /\ all_buffers_' = released.all
               /\ free_buffers_' = released.free
               /\ jni_status_code' = released.status

gav1ReleaseFrame(ob) ==
    LET buffer_id == decoderPrivate[ob]
        released == ReleaseBuffer(all_buffers_, free_buffers_, buffer_id)
    IN /\ decoderPrivate' = [decoderPrivate EXCEPT ![ob] = -1]
       /\ jni_ret' = Return("gav1ReleaseFrame", ob, kStatusOk, FALSE, <<>>,
                            buffer_id,
                            jni_ret.fn = "gav1ReleaseFrame" /\ jni_ret.ob = ob)
       /\ UNCHANGED <<avid_status_code, data, callerVars>>
       /\ IF buffer_id < 0
          THEN UNCHANGED <<poolVars, jni_status_code>>
          ELSE /\ all_buffers_' = released.all
               /\ free_buffers_' = released.free
               /\ jni_status_code' = released.status

Init ==
    /\ all_buffers_ = <<>>
    /\ free_buffers_ = <<>>
    /\ call = [op |-> "none", id |-> -1, status |-> kJniStatusOk, jni_buffer |-> -1]
    /\ stale_refs = 0
    /\ first_held = 0
    /\ JniContext

\* gav1GetFrame is called with varied inputs while fewer than MaxFrameBuffers
\* frame buffers are allocated.
MaxFrameBuffers == 2

\* The inputs of a gav1GetFrame call.  What a call does not read is not varied:
\* without a picture or with decodeOnly set nothing but these two is read.
JavaChoices ==
    {[init_result |-> TRUE, exception |-> FALSE],
     [init_result |-> FALSE, exception |-> FALSE],
     [init_result |-> FALSE, exception |-> TRUE]}

NotRead ==
    [pic : {Dav1dPicture(8, 1)}, alloc : {[new_fails |-> FALSE, oom |-> {}]},
     java : {[init_result |-> TRUE, exception |-> FALSE]}, length : {8}]

GetFrameInputs ==
    LET next == NextBufferId(all_buffers_, free_buffers_)
    IN {[decodeOnly |-> d, picture_status |-> kDav1dErrAgain, rest |-> r] :
            d \in BOOLEAN, r \in NotRead}
       \cup {[decodeOnly |-> TRUE, picture_status |-> kJniStatusOk, rest |-> r] :
            r \in NotRead}
       \cup {[decodeOnly |-> FALSE, picture_status |-> kJniStatusOk, rest |-> r] :
            r \in [pic : Pictures, alloc : AllocChoices(next),
                   java : JavaChoices, length : PointerSizes]}

GetFrame ==
    /\ all_buffer_count_ < MaxFrameBuffers
    /\ UNCHANGED threadVars
    /\ \E ob \in OutputBuffers, in \in GetFrameInputs :
           gav1GetFrame(ob, in.decodeOnly, in.picture_status, in.rest.pic,
                        in.rest.alloc.new_fails, in.rest.alloc.oom,
                        in.rest.java.init_result, in.rest.java.exception,
                        in.rest.length, NoUb)

\* The frames of a stream of 8-bit pictures of one row, with no allocation
\* and no Java call failing.
GetPlainFrame ==
    /\ UNCHANGED threadVars
    /\ \E ob \in OutputBuffers, decodeOnly \in BOOLEAN :
           gav1GetFrame(ob, decodeOnly, kJniStatusOk, Dav1dPicture(8, 1),
                        FALSE, {}, TRUE, FALSE, 8, NoUb)

ReleaseFrame ==
    /\ UNCHANGED threadVars
    /\ \E ob \in OutputBuffers : gav1ReleaseFrame(ob)

Next ==
    \/ GetFrame
    \/ ReleaseFrame

FramesNext ==
    \/ GetPlainFrame
    \/ ReleaseFrame

Spec == Init /\ [][Next]_vars

SpecFrames == Init /\ [][FramesNext]_vars

----------------------------------------------------------------------------
(* The pool asked for planes of varied sizes *)

\* The plane sizes GetBuffer is called with, a picture's strides: stride[0]
\* for plane Y, stride[1] for planes U and V, which is 0 for a picture without
\* chroma planes.
LumaMinSizes == {1, 2, 3}

ChromaMinSizes == {0, 1, 2}

\* The pool is asked for planes of varied sizes while it has a free buffer or
\* fewer than MaxSizedBuffers buffers.
MaxSizedBuffers == 1

\* GetBuffer(y_plane_min_size, uv_plane_min_size, &jni_buffer)
GetBufferOfSize ==
    /\ free_buffer_count_ > 0 \/ all_buffer_count_ < MaxSizedBuffers
    /\ \E y \in LumaMinSizes, uv \in ChromaMinSizes,
          alloc \in AllocChoices(NextBufferId(all_buffers_, free_buffers_)) :
            LET r == GetBuffer(all_buffers_, free_buffers_, y, uv,
                               alloc.new_fails, alloc.oom)
            IN /\ all_buffers_' = r.all
               /\ free_buffers_' = r.free
               /\ call' = [op |-> "GetBuffer", id |-> -1, status |-> r.status,
                           jni_buffer |-> r.jni_buffer,
                           y_plane_min_size |-> y, uv_plane_min_size |-> uv]
    /\ UNCHANGED <<stale_refs, first_held>>
    /\ UNCHANGED <<jniVars, threadVars>>

ReallocNext ==
    \/ GetBufferOfSize
    \/ PoolReleaseBuffer

SpecRealloc == Init /\ [][ReallocNext]_vars

----------------------------------------------------------------------------
(* The decoder thread and the render thread on one context *)

\* The decoder thread is in gav1GetFrame and enters
\* JniBufferManager::GetBuffer(size_t, size_t, JniFrameBuffer **): the
\* lock_guard takes mutex_, which blocks while another thread holds it.  The
\* pool is kept within MaxFrameBuffers buffers.
DecoderLocksGetBuffer(ob) ==
    /\ pc["decoder"] = Idle
    /\ all_buffer_count_ < MaxFrameBuffers \/ free_buffer_count_ > 0
    /\ mutex_ = "free"
    /\ mutex_' = "decoder"
    /\ pc' = [pc EXCEPT !["decoder"] = [fn |-> "GetBuffer", arg |-> ob]]
    /\ UNCHANGED <<poolVars, callerVars, jniVars>>

\* GetBuffer returns, which releases mutex_, and gav1GetFrame runs to its end.
DecoderGetFrameReturns ==
    /\ pc["decoder"].fn = "GetBuffer"
    /\ mutex_ = "decoder"
    /\ gav1GetFrame(pc["decoder"].arg, FALSE, kJniStatusOk, Dav1dPicture(8, 1),
                    FALSE, {}, TRUE, FALSE, 8, NoUb)
    /\ mutex_' = "free"
    /\ pc' = [pc EXCEPT !["decoder"] = Idle]

\* The decoder thread is in gav1ReleaseFrame with a buffer id that is not
\* negative and enters JniBufferManager::ReleaseBuffer.
DecoderLocksReleaseBuffer(ob) ==
    /\ pc["decoder"] = Idle
    /\ decoderPrivate[ob] >= 0
    /\ mutex_ = "free"
    /\ mutex_' = "decoder"
    /\ pc' = [pc EXCEPT !["decoder"] = [fn |-> "ReleaseBuffer", arg |-> ob]]
    /\ UNCHANGED <<poolVars, callerVars, jniVars>>

\* ReleaseBuffer returns, which releases mutex_, and gav1ReleaseFrame ends.
DecoderReleaseFrameReturns ==
    /\ pc["decoder"].fn = "ReleaseBuffer"
    /\ mutex_ = "decoder"
    /\ gav1ReleaseFrame(pc["decoder"].arg)
    /\ mutex_' = "free"
    /\ pc' = [pc EXCEPT !["decoder"] = Idle]

\* gav1ReleaseFrame on an output buffer whose decoderPrivate is negative
\* returns before it reaches the pool.
DecoderReleaseFrameEarly(ob) ==
    /\ pc["decoder"] = Idle
    /\ decoderPrivate[ob] < 0
    /\ gav1ReleaseFrame(ob)
    /\ UNCHANGED threadVars

\* The render thread is in gav1RenderFrame, has read buffer_id from the output
\* buffer's decoderPrivate and enters JniBufferManager::GetBuffer(int id),
\* which reads all_buffers_[id] and takes no lock.
RenderGetsBuffer(ob) ==
    /\ pc["render"] = Idle
    /\ decoderPrivate[ob] >= 0
    /\ pc' = [pc EXCEPT !["render"] =
                  [fn |-> "GetBuffer_id", arg |-> decoderPrivate[ob]]]
    /\ UNCHANGED <<mutex_, poolVars, callerVars, jniVars>>

\* GetBuffer(int id) returns and gav1RenderFrame runs to its end; it writes
\* neither the pool nor the output buffer.
RenderFrameReturns ==
    /\ pc["render"].fn = "GetBuffer_id"
    /\ pc' = [pc EXCEPT !["render"] = Idle]
    /\ UNCHANGED <<mutex_, poolVars, callerVars, jniVars>>

ThreadsNext ==
    \/ \E ob \in OutputBuffers : DecoderLocksGetBuffer(ob)
    \/ DecoderGetFrameReturns
    \/ \E ob \in OutputBuffers : DecoderLocksReleaseBuffer(ob)
    \/ DecoderReleaseFrameReturns
    \/ \E ob \in OutputBuffers : DecoderReleaseFrameEarly(ob)
    \/ \E ob \in OutputBuffers : RenderGetsBuffer(ob)
    \/ RenderFrameReturns

SpecThreads == Init /\ [][ThreadsNext]_vars

\* A thread is inside a pool operation that writes the pool arrays or a
\* reference count.
WritesPool(t) == pc[t].fn \in {"GetBuffer", "ReleaseBuffer"}

\* A thread is inside a pool operation that reads the pool arrays.
ReadsPool(t) == pc[t].fn \in {"GetBuffer", "ReleaseBuffer", "GetBuffer_id"}

\* Every access to the pool happens while the accessing thread holds mutex_.
PoolAccessHoldsMutex == \A t \in Threads : ReadsPool(t) => mutex_ = t

\* C2 as stated: the pool is guarded by mutex_, the id lookup GetBuffer(int id)
\* of gav1RenderFrame included, so no thread reads the pool arrays while
\* another thread is inside a pool operation that writes them.
C2_NoReadDuringWrite ==
    \A t \in Threads : \A u \in Threads \ {t} : ~(ReadsPool(t) /\ WritesPool(u))

----------------------------------------------------------------------------
(* 10-bit pictures converted into the output buffer *)

\* The 10-bit samples the conversion is tried on.
SampleValues == {0, 3, 1022, 1023}

\* A 10-bit 4:2:0 picture of h rows whose samples repeat the pattern s: sample
\* number n of plane plane_index (counting the uint16_t words of the plane,
\* PicStride \div 2 to a row) is s[((n + plane_index) % Len(s)) + 1], stored
\* as a little-endian 16-bit word.
Dav1dPicture10(h, s) ==
    [p |-> [w |-> PicStride \div 2, h |-> h, bpc |-> 10],
     stride |-> <<PicStride, PicStride>>,
     data |-> [plane \in 1 .. kMaxPlanes |->
                 [i \in 1 .. PicStride * PlaneRows(h, plane - 1) |->
                     LET v == s[((((i - 1) \div 2) + plane - 1) % Len(s)) + 1]
                     IN IF (i - 1) % 2 = 0 THEN v % 256 ELSE v \div 256]]]

TenBitPictures ==
    {Dav1dPicture10(h, s) : h \in 1 .. MaxPicHeight, s \in [1 .. 3 -> SampleValues]}

\* gav1GetFrame on an output buffer in kOutputModeYuv when dav1d_get_picture
\* returns a 10-bit picture and no allocation and no Java call fails.
ConvertFrame ==
    /\ all_buffer_count_ < MaxFrameBuffers
    /\ UNCHANGED threadVars
    /\ \E pic \in TenBitPictures, ub \in UbChoices :
           gav1GetFrame(kOutputModeYuv, FALSE, kJniStatusOk, pic,
                        FALSE, {}, TRUE, FALSE, 8, ub)

ConvertNext == ConvertFrame

SpecConvert == Init /\ [][ConvertNext]_vars

\* The samples of a plane Convert10BitFrameTo8BitDataBuffer takes in row-major
\* order, p.w to a row, as far as the plane has rows: their number, sample
\* number k, and the offset in the output buffer its conversion is stored at.
PlaneSamples(pic, plane_index) == pic.p.w * PlaneRows(pic.p.h, plane_index)

PlaneStride(pic, plane_index) ==
    IF plane_index = kPlaneY THEN pic.stride[1] ELSE pic.stride[2]

PlaneBase(pic, plane_index) ==
    IF plane_index = kPlaneY THEN 0
    ELSE IF plane_index = kPlaneU THEN pic.p.h * pic.stride[1]
    ELSE pic.p.h * pic.stride[1] + pic.p.h * pic.stride[2]

SampleAt(pic, plane_index, k) ==
    LET at == (k \div pic.p.w) * PlaneStride(pic, plane_index)
              + 2 * (k % pic.p.w)
    IN pic.data[plane_index + 1][at + 1] + 256 * pic.data[plane_index + 1][at + 2]

WrittenAt(pic, plane_index, k) ==
    PlaneBase(pic, plane_index)
    + (k \div pic.p.w) * PlaneStride(pic, plane_index) + (k % pic.p.w) + 1

----------------------------------------------------------------------------
(* Properties of the JNI entry points *)

\* C6 as stated: in kOutputModeYuv with an 8-bit picture, a gav1GetFrame call
\* that returns kStatusOk has copied every byte of plane Y, then of plane U,
\* then of plane V of the picture into the output buffer's data, for every
\* picture size.
C6_PlanesCopiedInFull ==
    (/\ jni_ret.fn = "gav1GetFrame"
     /\ jni_ret.result = kStatusOk
     /\ Mode(jni_ret.ob) = kOutputModeYuv
     /\ jni_ret.pic.p.bpc = 8) =>
        data[jni_ret.ob] =
            jni_ret.pic.data[1] \o jni_ret.pic.data[2] \o jni_ret.pic.data[3]

\* C7 as stated: a gav1GetFrame call with decodeOnly set returns
\* kStatusDecodeOnly, takes no buffer from the pool, does not touch the output
\* buffer and leaves gav1CheckError returning kStatusOk, also when the decoder
\* has no picture available.
C7_DecodeOnlyIsNoError ==
    [][(jni_ret'.fn = "gav1GetFrame" /\ jni_ret'.decode_only) =>
          /\ jni_ret'.result = kStatusDecodeOnly
          /\ UNCHANGED <<poolVars, outputVars>>
          /\ gav1CheckError = kStatusOk => gav1CheckError' = kStatusOk]_vars

RECURSIVE SumOfReferences(_, _)
SumOfReferences(all, n) ==
    IF n = 0 THEN 0 ELSE all[n].reference_count_ + SumOfReferences(all, n - 1)

TotalReferences == SumOfReferences(all_buffers_, all_buffer_count_)

\* C8: gav1ReleaseFrame always sets the output buffer's decoderPrivate to -1;
\* when decoderPrivate is already negative it changes neither the pool nor
\* jni_status_code; a call drops at most one reference, and a second call in
\* a row on the same output buffer leaves the context unchanged.
C8_ReleaseIdempotent ==
    [][jni_ret'.fn = "gav1ReleaseFrame" =>
          /\ decoderPrivate'[jni_ret'.ob] = -1
          /\ decoderPrivate[jni_ret'.ob] < 0 =>
                 UNCHANGED <<poolVars, jni_status_code>>
          /\ TotalReferences' >= TotalReferences - 1
          /\ jni_ret'.again => UNCHANGED <<contextVars, outputVars>>]_vars

C8_Witness ==
    /\ jni_ret.fn = "gav1ReleaseFrame"
    /\ jni_ret.again
    /\ jni_ret.jni_buffer < 0
    /\ free_buffer_count_ > 0
    /\ jni_status_code = kJniStatusOk

\* C10 as stated: when gav1GetFrame returns, the buffer it obtained from
\* GetBuffer is still referenced only if its id was written to the output
\* buffer's decoderPrivate (surface mode, kStatusOk); hence GetBuffer never
\* fails with kJniStatusOutOfMemory for lack of pool slots.
C10_ReferenceKeptOnlyWhenHandedOut ==
    /\ (/\ jni_ret.fn = "gav1GetFrame"
        /\ jni_ret.jni_buffer >= 0
        /\ InUse(Buffer(jni_ret.jni_buffer))) =>
           /\ Mode(jni_ret.ob) = kOutputModeSurfaceYuv
           /\ jni_ret.result = kStatusOk
           /\ decoderPrivate[jni_ret.ob] = jni_ret.jni_buffer
    /\ jni_status_code # kJniStatusOutOfMemory

\* The state the frames of a stream lead to: every one of the kMaxFrames
\* buffers is referenced, no output buffer holds one, and gav1GetFrame fails.
FramesExhaustPool ==
    /\ jni_ret.fn = "gav1GetFrame"
    /\ jni_ret.result = kStatusError
    /\ jni_status_code = kJniStatusOutOfMemory
    /\ all_buffer_count_ = kMaxFrames
    /\ free_buffer_count_ = 0
    /\ \A ob \in OutputBuffers : decoderPrivate[ob] < 0

\* The carry before sample number k of a plane: 0 before the first sample,
\* (v + carry) mod 4 after a sample v.
RECURSIVE CarryBefore(_, _, _)
CarryBefore(pic, plane_index, k) ==
    IF k = 0
    THEN 0
    ELSE (SampleAt(pic, plane_index, k - 1)
          + CarryBefore(pic, plane_index, k - 1)) % 4

RECURSIVE SumOfSamples(_, _, _)
SumOfSamples(pic, plane_index, k) ==
    IF k = 0
    THEN 0
    ELSE SampleAt(pic, plane_index, k - 1) + SumOfSamples(pic, plane_index, k - 1)

RECURSIVE SumOfWritten(_, _, _, _)
SumOfWritten(pic, out, plane_index, k) ==
    IF k = 0
    THEN 0
    ELSE out[WrittenAt(pic, plane_index, k - 1)]
         + SumOfWritten(pic, out, plane_index, k - 1)

\* C11 as stated: after gav1GetFrame has converted a 10-bit picture, for
\* every plane and every sample v in 0 .. 1023 of it, taken in row-major
\* order with the carry starting at 0, the byte stored in the output buffer
\* is (v + carry) div 4 and lies in 0 .. 255, the carry going on as
\* (v + carry) mod 4; and over a plane 4 * (sum of the stored values) + final
\* carry = sum of the samples.
C11_RemainderCarried ==
    (/\ jni_ret.fn = "gav1GetFrame"
     /\ jni_ret.result = kStatusOk
     /\ Mode(jni_ret.ob) = kOutputModeYuv
     /\ jni_ret.pic.p.bpc = 10) =>
        LET pic == jni_ret.pic
            out == data[jni_ret.ob]
        IN \A plane_index \in Planes :
             LET n == PlaneSamples(pic, plane_index)
             IN /\ \A k \in 0 .. (n - 1) :
                      LET v == SampleAt(pic, plane_index, k)
                          at == WrittenAt(pic, plane_index, k)
                      IN (at <= Len(out) /\ v \in 0 .. 1023) =>
                            /\ out[at] = (v + CarryBefore(pic, plane_index, k)) \div 4
                            /\ out[at] \in 0 .. 255
                /\ WrittenAt(pic, plane_index, n - 1) <= Len(out) =>
                      4 * SumOfWritten(pic, out, plane_index, n)
                      + CarryBefore(pic, plane_index, n)
                          = SumOfSamples(pic, plane_index, n)

\* What Convert10BitFrameTo8BitDataBuffer stores: the low 8 bits of
\* (v + carry) div 4.
Convert10BitStoresLowByte ==
    (/\ jni_ret.fn = "gav1GetFrame"
     /\ jni_ret.result = kStatusOk
     /\ Mode(jni_ret.ob) = kOutputModeYuv
     /\ jni_ret.pic.p.bpc = 10) =>
        \A plane_index \in Planes :
            \A k \in 0 .. (PlaneSamples(jni_ret.pic, plane_index) - 1) :
                LET at == WrittenAt(jni_ret.pic, plane_index, k)
                IN at <= Len(data[jni_ret.ob]) =>
                     data[jni_ret.ob][at] =
                        ((SampleAt(jni_ret.pic, plane_index, k)
                          + CarryBefore(jni_ret.pic, plane_index, k)) \div 4) % 256

----------------------------------------------------------------------------
(* Properties of MaybeReallocateGav1DataPlanes *)

MinSize(plane_index, y_plane_min_size, uv_plane_min_size) ==
    IF plane_index = kPlaneY THEN y_plane_min_size ELSE uv_plane_min_size

\* The calls MaybeReallocateGav1DataPlanes can get in the current state: a
\* buffer of the pool, the sizes asked for and the planes whose allocation
\* fails.
ReallocCalls ==
    [id : AllocatedIds, y : LumaMinSizes, uv : ChromaMinSizes,
     oom : {{}} \cup {{p} : p \in Planes}]

ReallocResult(c) == MaybeReallocateGav1DataPlanes(Buffer(c.id), c.y, c.uv, c.oom)

\* A plane's capacity already suffices for the call.
Suffices(c, plane_index) ==
    Buffer(c.id).raw_buffer_size_[plane_index + 1] >= MinSize(plane_index, c.y, c.uv)

\* In what follows r is the result of the call c.
\* The call returns false exactly if an allocation it needed failed.
ReallocReturnsSuccess(c, r) ==
    r.ok = ~(\E p \in Planes : ~Suffices(c, p) /\ p \in c.oom)

\* After a true return every plane has at least the capacity asked for.
ReallocGivesCapacity(c, r) ==
    r.ok =>
        \A p \in Planes :
            r.buffer.raw_buffer_size_[p + 1] >= MinSize(p, c.y, c.uv)

\* After a true return every plane has a raw buffer.
ReallocGivesBuffers(c, r) ==
    r.ok =>
        \A p \in Planes : r.buffer.raw_buffer_[p + 1]

\* After a true return every plane asked for more than 0 bytes has a raw buffer.
ReallocGivesBuffersAskedFor(c, r) ==
    r.ok =>
        \A p \in Planes :
            MinSize(p, c.y, c.uv) > 0 => r.buffer.raw_buffer_[p + 1]

\* A plane whose capacity already suffices keeps its buffer and capacity.
ReallocKeepsSufficient(c, r) ==
    \A p \in Planes :
        Suffices(c, p) =>
            /\ r.buffer.raw_buffer_size_[p + 1]
                   = Buffer(c.id).raw_buffer_size_[p + 1]
            /\ r.buffer.raw_buffer_[p + 1]
                   = Buffer(c.id).raw_buffer_[p + 1]

\* A successful call does not decrease a plane's capacity.
ReallocNeverShrinks(c, r) ==
    r.ok =>
        \A p \in Planes :
            r.buffer.raw_buffer_size_[p + 1]
                >= Buffer(c.id).raw_buffer_size_[p + 1]

\* After a false return the plane whose allocation failed (the first plane
\* that needed one that fails) has a null buffer and capacity 0.
ReallocFailureRecorded(c, r) ==
    ~r.ok =>
        \E p \in Planes :
            /\ ~Suffices(c, p) /\ p \in c.oom
            /\ \A q \in Planes : q < p => Suffices(c, q) \/ q \notin c.oom
            /\ ~r.buffer.raw_buffer_[p + 1]
            /\ r.buffer.raw_buffer_size_[p + 1] = 0

\* C12 as stated: MaybeReallocateGav1DataPlanes returns true if the allocation
\* was successful or not needed and false if an allocation failed; after a
\* true return every plane has at least the capacity asked for and a non-null
\* raw buffer; a plane whose capacity suffices keeps buffer and capacity; a
\* successful call never decreases a capacity; after a false return the plane
\* whose allocation failed has a null buffer and capacity 0.
C12_Original ==
    \A c \in ReallocCalls :
      LET r == ReallocResult(c)
      IN
        /\ ReallocReturnsSuccess(c, r)
        /\ ReallocGivesCapacity(c, r)
        /\ ReallocGivesBuffers(c, r)
        /\ ReallocKeepsSufficient(c, r)
        /\ ReallocNeverShrinks(c, r)
        /\ ReallocFailureRecorded(c, r)

\* C12 amended: as stated, but after a true return a non-null raw buffer is
\* had by every plane asked for more than 0 bytes; a plane asked for 0 bytes
\* that has never been allocated keeps its null buffer and capacity 0.
C12_Amended ==
    \A c \in ReallocCalls :
      LET r == ReallocResult(c)
      IN
        /\ ReallocReturnsSuccess(c, r)
        /\ ReallocGivesCapacity(c, r)
        /\ ReallocGivesBuffersAskedFor(c, r)
        /\ ReallocKeepsSufficient(c, r)
        /\ ReallocNeverShrinks(c, r)
        /\ ReallocFailureRecorded(c, r)

\* GetBuffer has handed out a reused buffer for a picture without chroma
\* planes: plane Y kept a capacity above the size asked for, planes U and V
\* were asked for 0 bytes and have no raw buffer.
C12_Witness ==
    /\ call.op = "GetBuffer"
    /\ call.status = kJniStatusOk
    /\ call.uv_plane_min_size = 0
    /\ Buffer(call.jni_buffer).raw_buffer_size_[kPlaneY + 1] > call.y_plane_min_size
    /\ ~Buffer(call.jni_buffer).raw_buffer_[kPlaneU + 1]
    /\ ~Buffer(call.jni_buffer).raw_buffer_[kPlaneV + 1]

----------------------------------------------------------------------------
(* Properties of the pool *)

ReferenceCount(id) == Buffer(id).reference_count_

\* What a GetBuffer call can do in the current state, over every outcome of
\* its allocations.
GetBufferOutcomes ==
    {GetBuffer(all_buffers_, free_buffers_, 2 * PoolPlaneSize, PoolPlaneSize,
               new_fails, oom) :
        new_fails \in BOOLEAN, oom \in {{}} \cup {{p} : p \in Planes}}

PoolWithinCap ==
    /\ all_buffer_count_ <= kMaxFrames
    /\ free_buffer_count_ >= 0

FreeWithinAll == free_buffer_count_ <= all_buffer_count_

ExhaustedGetBufferFails ==
    (free_buffer_count_ = 0 /\ all_buffer_count_ = kMaxFrames) =>
        \A r \in GetBufferOutcomes :
            /\ r.status = kJniStatusOutOfMemory
            /\ r.all = all_buffers_
            /\ r.free = free_buffers_

FreeListClean ==
    \A i \in 1 .. free_buffer_count_ :
        /\ ReferenceCount(free_buffers_[i]) = 0
        /\ \A j \in 1 .. free_buffer_count_ :
               i # j => free_buffers_[i] # free_buffers_[j]

HandedOutUnreferenced ==
    \A r \in GetBufferOutcomes :
        r.status = kJniStatusOk =>
            /\ r.jni_buffer \in AllocatedIds => ReferenceCount(r.jni_buffer) = 0
            /\ r.all[r.jni_buffer + 1].reference_count_ = 1

\* C3 as stated: after any sequence of GetBuffer, AddBufferReference and
\* ReleaseBuffer on allocated ids, every entry of the free list has reference
\* count 0 and appears in it once, and a buffer returned by a successful
\* GetBuffer had reference count 0 before the call and has 1 after it.
C3_Original ==
    /\ FreeListClean
    /\ HandedOutUnreferenced

\* C3 amended: the same, as long as AddBufferReference was only called on
\* buffers in use.
C3_Amended == stale_refs = 0 => C3_Original

C3_Witness ==
    /\ call.op = "GetBuffer"
    /\ call.status = kJniStatusOk
    /\ ReferenceCount(call.jni_buffer) = 1
    /\ free_buffer_count_ > 0
    /\ stale_refs = 0

ReleasePushes ==
    \A id \in AllocatedIds :
        ReferenceCount(id) = 1 =>
            LET r == ReleaseBuffer(all_buffers_, free_buffers_, id)
            IN /\ r.status = kJniStatusOk
               /\ r.free = Append(free_buffers_, id)

AllocatesOnlyWhenFreeListEmpty ==
    \A r \in GetBufferOutcomes :
        Len(r.all) > all_buffer_count_ => free_buffer_count_ = 0

ReusesTopOfFreeList ==
    free_buffer_count_ > 0 =>
        \A r \in GetBufferOutcomes :
            /\ Len(r.all) = all_buffer_count_
            /\ r.status = kJniStatusOk =>
                   /\ r.jni_buffer = free_buffers_[free_buffer_count_]
                   /\ r.free = SubSeq(free_buffers_, 1, free_buffer_count_ - 1)

JustFreedIsHandedOutNext ==
    (/\ call.op = "ReleaseBuffer"
     /\ call.status = kJniStatusOk
     /\ ~InUse(Buffer(call.id))) =>
        \A r \in GetBufferOutcomes :
            r.status = kJniStatusOk => r.jni_buffer = call.id

\* C4: ReleaseBuffer(id) dropping the last reference pushes the buffer onto
\* the free list; GetBuffer allocates a new buffer only when the free list is
\* empty; with a non-empty free list the buffer it hands out is the one freed
\* most recently and all_buffer_count_ does not change.
C4_BuffersReused ==
    /\ ReleasePushes
    /\ AllocatesOnlyWhenFreeListEmpty
    /\ ReusesTopOfFreeList
    /\ JustFreedIsHandedOutNext

C4_Witness ==
    /\ call.op = "ReleaseBuffer"
    /\ call.status = kJniStatusOk
    /\ ~InUse(Buffer(call.id))
    /\ free_buffer_count_ >= 2
    /\ free_buffers_[1] # call.id
    /\ all_buffer_count_ < kMaxFrames

ReleaseUnreferencedRefused ==
    \A id \in AllocatedIds :
        ReferenceCount(id) = 0 =>
            LET r == ReleaseBuffer(all_buffers_, free_buffers_, id)
            IN /\ r.status = kJniStatusBufferAlreadyReleased
               /\ r.all = all_buffers_
               /\ r.free = free_buffers_

ReleaseReferencedDecrements ==
    \A id \in AllocatedIds :
        LET r == ReleaseBuffer(all_buffers_, free_buffers_, id)
        IN /\ r.status = kJniStatusOk <=> ReferenceCount(id) > 0
           /\ r.status = kJniStatusOk =>
                  r.all = [all_buffers_ EXCEPT
                             ![id + 1].reference_count_ = ReferenceCount(id) - 1]

ReferenceCountsNotNegative ==
    \A id \in AllocatedIds : ReferenceCount(id) >= 0

\* C5: ReleaseBuffer(id) on a buffer with reference count 0 returns
\* kJniStatusBufferAlreadyReleased and changes nothing; no reference count is
\* ever negative; ReleaseBuffer returns kJniStatusOk exactly when the count
\* was positive, and then decrements it by one.
C5_ReleaseChecked ==
    /\ ReleaseUnreferencedRefused
    /\ ReleaseReferencedDecrements
    /\ ReferenceCountsNotNegative

C5_Witness ==
    /\ call.op = "ReleaseBuffer"
    /\ call.status = kJniStatusBufferAlreadyReleased
    /\ ReferenceCount(call.id) = 0

\* C9 as stated: after any sequence of pool operations, GetBuffer calls that
\* fail because MaybeReallocateGav1DataPlanes failed included, every allocated
\* buffer is in use or in the free list: all_buffer_count_ = (number of
\* buffers with a positive reference count) + free_buffer_count_.
C9_NoBufferLost ==
    all_buffer_count_ =
        Cardinality({id \in AllocatedIds : ReferenceCount(id) > 0})
        + free_buffer_count_

====
